---- MODULE Spec2Model ----
(***************************************************************************)
(* A model of bot.py: the catalogue document kept in data.json, the        *)
(* rendering of the index and category messages, the startup               *)
(* reconciliation ensure_channel_messages and the command handlers.        *)
(*                                                                         *)
(* Python strings are sequences of one-character strings, so that split,   *)
(* lower, upper, lstrip and the URL pattern are computed, not assumed.     *)
(* A text sent to Telegram is the sequence of its lines, each line a       *)
(* record of the values its f-string interpolates.                         *)
(***************************************************************************)
EXTENDS Integers, Sequences, FiniteSets, TLC

\* ------------------------------------------------------------ bounds

\* Categories in the operator-authored document.
MaxCats == 2
\* Commands dispatched in one run of the process (restarts included).
MaxOps == 2
\* Handler coroutines that may be in flight at once when the transport
\* delivers updates concurrently.
MaxHandlers == 2

\* ------------------------------------------------------------ strings

\* Python's None where a string is expected: no string has a "None" character.
None == <<"None">>

\* JSON null for a message id; `not info.get("message_id")` is also true of 0,
\* and Telegram's message ids are positive.
NoId == 0

\* bool(v) for a string or None.
Truthy(v) == v # None /\ v # <<>>

\* Python's `a or b`.
PyOr(a, b) == IF Truthy(a) THEN a ELSE b

LowerAlpha == <<"a", "b", "c", "d", "e", "f", "g", "h", "i", "j", "k", "l", "m",
                "n", "o", "p", "q", "r", "s", "t", "u", "v", "w", "x", "y", "z">>
UpperAlpha == <<"A", "B", "C", "D", "E", "F", "G", "H", "I", "J", "K", "L", "M",
                "N", "O", "P", "Q", "R", "S", "T", "U", "V", "W", "X", "Y", "Z">>

LowerChar(c) ==
    IF \E i \in 1..Len(UpperAlpha) : UpperAlpha[i] = c
    THEN LowerAlpha[CHOOSE i \in 1..Len(UpperAlpha) : UpperAlpha[i] = c]
    ELSE c

UpperChar(c) ==
    IF \E i \in 1..Len(LowerAlpha) : LowerAlpha[i] = c
    THEN UpperAlpha[CHOOSE i \in 1..Len(LowerAlpha) : LowerAlpha[i] = c]
    ELSE c

\* str.lower()
Lower(s) == [i \in 1..Len(s) |-> LowerChar(s[i])]

\* str.upper()
Upper(s) == [i \in 1..Len(s) |-> UpperChar(s[i])]

IsSpace(c) == c \in {" ", "\t", "\n"}

StartsWith(s, p) == Len(s) >= Len(p) /\ SubSeq(s, 1, Len(p)) = p

\* str.lstrip('@')
RECURSIVE LStripAt(_)
LStripAt(s) == IF s # <<>> /\ Head(s) = "@" THEN LStripAt(Tail(s)) ELSE s

\* text.strip().split(): the maximal runs of non-whitespace characters.
RECURSIVE SplitFrom(_, _, _, _)
SplitFrom(text, i, cur, acc) ==
    IF i > Len(text)
    THEN (IF cur = <<>> THEN acc ELSE Append(acc, cur))
    ELSE IF IsSpace(text[i])
         THEN SplitFrom(text, i + 1, <<>>, IF cur = <<>> THEN acc ELSE Append(acc, cur))
         ELSE SplitFrom(text, i + 1, Append(cur, text[i]), acc)

Split(text) == SplitFrom(text, 1, <<>>, <<>>)

\* " ".join(parts)
RECURSIVE JoinSpace(_)
JoinSpace(parts) ==
    IF parts = <<>> THEN <<>>
    ELSE IF Len(parts) = 1 THEN parts[1]
    ELSE parts[1] \o <<" ">> \o JoinSpace(Tail(parts))

HttpPrefix == <<"h", "t", "t", "p", ":", "/", "/">>
HttpsPrefix == <<"h", "t", "t", "p", "s", ":", "/", "/">>

\* re.compile(r"^https?://\S+$").match(tok)
UrlMatch(tok) ==
    \E pre \in {HttpPrefix, HttpsPrefix} :
        /\ StartsWith(tok, pre)
        /\ Len(tok) > Len(pre)
        /\ \A i \in (Len(pre) + 1)..Len(tok) : ~IsSpace(tok[i])

SlashAdd == <<"/", "a", "d", "d">>

NoMatch == [category |-> None, title |-> None, url |-> None]

SetMax(S) == CHOOSE m \in S : \A n \in S : n <= m

\* Mutant of parse_add_args: the first URL-like token is taken, not the last.
parse_add_args_first_url(text) ==
    LET parts0 == Split(text)
        parts == IF parts0 # <<>> /\ StartsWith(parts0[1], SlashAdd)
                 THEN Tail(parts0) ELSE parts0
        urls == {i \in 1..Len(parts) : UrlMatch(parts[i])}
    IN  IF parts = <<>> THEN NoMatch
        ELSE IF urls = {} THEN NoMatch
        ELSE LET url_idx == CHOOSE m \in urls : \A n \in urls : m <= n
             IN  [category |-> parts[1],
                  title |-> IF url_idx > 2
                            THEN JoinSpace(SubSeq(parts, 2, url_idx - 1))
                            ELSE <<>>,
                  url |-> parts[url_idx]]

\* parse_add_args: indices here are 1-based, the source's are 0-based.
parse_add_args(text) ==
    LET parts0 == Split(text)
        parts == IF parts0 # <<>> /\ StartsWith(parts0[1], SlashAdd)
                 THEN Tail(parts0) ELSE parts0
        urls == {i \in 1..Len(parts) : UrlMatch(parts[i])}
    IN  IF parts = <<>> THEN NoMatch
        ELSE IF urls = {} THEN NoMatch
        ELSE LET url_idx == SetMax(urls)
             IN  [category |-> parts[1],
                  title |-> IF url_idx > 2
                            THEN JoinSpace(SubSeq(parts, 2, url_idx - 1))
                            ELSE <<>>,
                  url |-> parts[url_idx]]

\* ------------------------------------------------------------ rendering

\* The document: categorias is the dict in its insertion order, one record
\* [key, message_id, links] per item.

\* Mutant of format_index: the jump link does not wait for the channel.
format_index_any_channel(data) ==
    <<[kind |-> "index_header"]>> \o
    [k \in 1..Len(data.categorias) |->
        LET info == data.categorias[k]
        IN  [kind |-> "index_line",
             cat |-> info.key,
             count |-> Len(info.links),
             jump |-> IF info.message_id # NoId
                      THEN <<LStripAt(data.channel_username), info.message_id>>
                      ELSE <<>>]]

\* format_index
format_index(data) ==
    <<[kind |-> "index_header"]>> \o
    [k \in 1..Len(data.categorias) |->
        LET info == data.categorias[k]
        IN  [kind |-> "index_line",
             cat |-> info.key,
             count |-> Len(info.links),
             jump |-> IF Truthy(data.channel_username) /\ info.message_id # NoId
                      THEN <<LStripAt(data.channel_username), info.message_id>>
                      ELSE <<>>]]

\* Mutant of format_category_message: the title is texto, whatever it holds.
format_category_message_texto_only(cat_name, links) ==
    LET header == [kind |-> "category_header", name |-> Upper(cat_name),
                   count |-> Len(links)]
    IN  IF links = <<>>
        THEN <<header, [kind |-> "add_hint"]>>
        ELSE <<header>> \o
             [i \in 1..Len(links) |->
                 [kind |-> "link_line", n |-> i, url |-> links[i].url,
                  title |-> links[i].texto]]

\* format_category_message
format_category_message(cat_name, links) ==
    LET header == [kind |-> "category_header", name |-> Upper(cat_name),
                   count |-> Len(links)]
    IN  IF links = <<>>
        THEN <<header, [kind |-> "add_hint"]>>
        ELSE <<header>> \o
             [i \in 1..Len(links) |->
                 [kind |-> "link_line", n |-> i, url |-> links[i].url,
                  title |-> PyOr(links[i].texto, links[i].url)]]

\* ------------------------------------------------------------ inputs

Vi == <<"V", "i">>
Do == <<"D", "o">>
VI == <<"V", "I">>
Ab == <<"A", "b">>

\* The keys of the operator's document, in its order; a document holds a prefix.
CatKeys == <<Vi, Do, VI, Ab>>

Channel == <<"@", "c">>

UrlA == HttpPrefix \o <<"a">>
UrlB == HttpsPrefix \o <<"b">>

\* update.message.text of the /add commands tried.
AddTexts ==
    { SlashAdd,
      JoinSpace(<<SlashAdd, Vi, <<"x">> >>),
      JoinSpace(<<SlashAdd, Vi, UrlA>>),
      JoinSpace(<<SlashAdd, <<"d", "O">>, <<"t">>, <<"u">>, UrlB>>),
      JoinSpace(<<SlashAdd, <<"Z", "z">>, UrlA>>),
      JoinSpace(<<SlashAdd, UrlA>>) }

\* /add commands of overlapping handlers: the same category typed in two
\* ways, with different URLs.
OverlappingAddTexts ==
    { JoinSpace(<<SlashAdd, Vi, UrlA>>),
      JoinSpace(<<SlashAdd, <<"v", "i">>, <<"t">>, UrlB>>) }

\* Plain-text messages tried on echo_handler.
EchoTexts == { UrlA, <<"h", "o", "l", "a">> }

\* update.effective_user: one with a username, one without.
Users == { [username |-> <<"a", "n", "a">>, full_name |-> <<"A", "n", "a">>],
           [username |-> None, full_name |-> <<"B", "o">>] }

\* ------------------------------------------------------------ state

Handlers == 1..MaxHandlers
\* Process 0 is the startup hook (post_init); the others run command handlers.
Procs == 0..MaxHandlers

VARIABLES
    file,        \* data.json
    chan,        \* the channel: chan[id] is the text of message id
    pc,          \* where each coroutine is suspended
    data,        \* each coroutine's `data`, the document it loaded
    loc,         \* each coroutine's other locals
    call,        \* the remote call each coroutine awaits, and its outcome
    ops,         \* commands and restarts so far
    concurrent,  \* whether the transport dispatches updates concurrently
    trace,       \* history: the saves and remote calls of the current operation
    loaded,      \* history: the document as the current operation loaded it
    stale,       \* history: data.json was saved by another since this one loaded
    given,       \* the argument of a function called on its own
    result       \* what that call returned

vars == <<file, chan, pc, data, loc, call, ops, concurrent, trace, loaded, stale,
          given, result>>

\* The functions called on their own are not called while the bot runs.
pure == <<given, result>>

\* No call made, nothing returned yet.
NoArg == [fn |-> "none"]
NoRet == [fn |-> "none"]

NoCall == [op |-> "none", what |-> "", target |-> -1, id |-> NoId,
           text |-> <<>>, arg |-> <<>>, st |-> "none", rid |-> NoId]

\* bot.send_message(chat_id, text): target 0 is the index, k the k-th category.
SendCall(target, text) ==
    [NoCall EXCEPT !.op = "send", !.target = target, !.text = text, !.st = "pending"]

\* bot.edit_message_text(chat_id, message_id, text)
EditCall(target, id, text) ==
    [NoCall EXCEPT !.op = "edit", !.target = target, !.id = id, !.text = text,
                   !.st = "pending"]

\* update.message.reply_text(...)
ReplyCall(what, arg) ==
    [NoCall EXCEPT !.op = "reply", !.what = what, !.arg = arg, !.st = "pending"]

Event(c, ok, id) ==
    [op |-> c.op, what |-> c.what, target |-> c.target, id |-> id, ok |-> ok,
     arg |-> c.arg]

SaveEvent == [op |-> "save", what |-> "", target |-> -1, id |-> NoId, ok |-> TRUE,
              arg |-> <<>>]

NoLoc == [cmd |-> "none", cur |-> 0, modified |-> FALSE, raw |-> <<>>]

EmptyDoc == [channel_username |-> None, indice_message_id |-> NoId,
             categorias |-> <<>>]

\* Mutant of SetCatId: the id is stored under the first key.
SetCatIdFirstKey(d, k, id) == [d EXCEPT !.categorias[1].message_id = id]

\* data["categorias"][cat]["message_id"] = msg.message_id
SetCatId(d, k, id) == [d EXCEPT !.categorias[k].message_id = id]

\* data["indice_message_id"] = msg.message_id
SetIndexId(d, id) == [d EXCEPT !.indice_message_id = id]

\* Mutant of AppendLink: the entry replaces the list.
AppendLinkAlone(d, k, entry) == [d EXCEPT !.categorias[k].links = <<entry>>]

\* Mutant of AppendLink: the entry is inserted at the front.
AppendLinkAtFront(d, k, entry) ==
    [d EXCEPT !.categorias[k].links = <<entry>> \o @]

\* Mutant of AppendLink: the entry takes the place of the last one.
AppendLinkOverLast(d, k, entry) ==
    [d EXCEPT !.categorias[k].links =
        IF @ = <<>> THEN <<entry>> ELSE [@ EXCEPT ![Len(@)] = entry]]

\* data["categorias"][cat_key].setdefault("links", []).append(entry)
AppendLink(d, k, entry) == [d EXCEPT !.categorias[k].links = Append(@, entry)]

\* The documents the process may start on, and the channel that goes with
\* each: the ids a document records are those of messages sent earlier, whose
\* text is not known (<<>>); a document that never had a channel records none.
DocsOver(keys) ==
    { [channel_username |-> ch,
       indice_message_id |-> IF 0 \in rec THEN 1 ELSE NoId,
       categorias |-> [k \in 1..n |->
           [key |-> keys[k],
            message_id |-> IF k \in rec
                           THEN Cardinality({j \in rec : j < k}) + 1
                           ELSE NoId,
            links |-> <<>>]]] :
      ch \in {None, Channel}, n \in 0..MaxCats, rec \in SUBSET (0..MaxCats) }

InitDocs == DocsOver(CatKeys)

RecordedIds(d) ==
    ({d.indice_message_id} \cup
     {d.categorias[k].message_id : k \in 1..Len(d.categorias)}) \ {NoId}

InitFrom(docs) ==
    /\ file \in {d \in docs : Truthy(d.channel_username) \/ RecordedIds(d) = {}}
    /\ chan = [i \in 1..Cardinality(RecordedIds(file)) |-> <<>>]
    /\ data = [p \in Procs |-> EmptyDoc]
    /\ loc = [p \in Procs |-> NoLoc]
    /\ call = [p \in Procs |-> NoCall]
    /\ ops = 0
    /\ trace = [p \in Procs |-> <<>>]
    /\ loaded = [p \in Procs |-> EmptyDoc]
    /\ stale = [p \in Procs |-> FALSE]
    /\ given = NoArg
    /\ result = NoRet

InitCommon == InitFrom(InitDocs)

\* ------------------------------------------------------------ Telegram

\* A coroutine suspended at an await resumes once its call has an outcome.
Resumes(p, at) == pc[p] = at /\ call[p].st \in {"ok", "fail"}

Answer(p, ok, id) ==
    /\ call' = [call EXCEPT ![p].st = IF ok THEN "ok" ELSE "fail", ![p].rid = id]
    /\ trace' = [trace EXCEPT ![p] = Append(@, Event(call[p], ok, id))]
    /\ UNCHANGED <<file, pc, data, loc, ops, concurrent, loaded, stale, pure>>

\* send_message succeeds: the channel holds a new message with a fresh id.
SendOk(p) ==
    /\ call[p].op = "send" /\ call[p].st = "pending"
    /\ chan' = Append(chan, call[p].text)
    /\ Answer(p, TRUE, Len(chan) + 1)

\* send_message raises (network error, bot not admin of the channel, ...).
SendFail(p) ==
    /\ call[p].op = "send" /\ call[p].st = "pending"
    /\ chan' = chan
    /\ Answer(p, FALSE, NoId)

\* edit_message_text succeeds: only on a message the channel holds.
EditOk(p) ==
    /\ call[p].op = "edit" /\ call[p].st = "pending"
    /\ call[p].id \in 1..Len(chan)
    /\ chan' = [chan EXCEPT ![call[p].id] = call[p].text]
    /\ Answer(p, TRUE, call[p].id)

\* edit_message_text raises (no such message, message not modified, ...).
EditFail(p) ==
    /\ call[p].op = "edit" /\ call[p].st = "pending"
    /\ chan' = chan
    /\ Answer(p, FALSE, call[p].id)

\* reply_text reaches the user; it changes nothing the program keeps.
Replied(p) ==
    /\ call[p].op = "reply" /\ call[p].st = "pending"
    /\ chan' = chan
    /\ Answer(p, TRUE, NoId)

\* ------------------------------------------------------------ steps

\* stale once p has saved: every other handler in flight holds an older document.
Outdated(p) ==
    [q \in Procs |-> IF q # p /\ q # 0 /\ pc[q] # "idle" THEN TRUE ELSE stale[q]]

\* One run of a coroutine between two awaits: p moves to `to` with locals d
\* and l, awaiting c; `saved` tells whether save_data(d) ran.
Step(p, to, d, l, c, saved) ==
    /\ pc' = [pc EXCEPT ![p] = to]
    /\ data' = [data EXCEPT ![p] = d]
    /\ loc' = [loc EXCEPT ![p] = l]
    /\ call' = [call EXCEPT ![p] = c]
    /\ file' = IF saved THEN d ELSE file
    /\ trace' = IF saved THEN [trace EXCEPT ![p] = Append(@, SaveEvent)] ELSE trace
    /\ stale' = IF saved THEN Outdated(p) ELSE stale
    /\ UNCHANGED <<chan, concurrent, pure>>

\* The first step of an operation: it loads the document and starts its trace.
Begin(p, to, d, l, c, saved) ==
    /\ pc' = [pc EXCEPT ![p] = to]
    /\ data' = [data EXCEPT ![p] = d]
    /\ loc' = [loc EXCEPT ![p] = l]
    /\ call' = [call EXCEPT ![p] = c]
    /\ file' = IF saved THEN d ELSE file
    /\ trace' = [trace EXCEPT ![p] = IF saved THEN <<SaveEvent>> ELSE <<>>]
    /\ loaded' = [loaded EXCEPT ![p] = file]
    /\ stale' = IF saved THEN Outdated(p) ELSE stale
    /\ UNCHANGED <<chan, concurrent, pure>>

\* A coroutine returned: its frame is gone.
Return(p, to) ==
    /\ pc' = [pc EXCEPT ![p] = to]
    /\ data' = [data EXCEPT ![p] = EmptyDoc]
    /\ loc' = [loc EXCEPT ![p] = NoLoc]
    /\ call' = [call EXCEPT ![p] = NoCall]
    /\ trace' = [trace EXCEPT ![p] = <<>>]
    /\ loaded' = [loaded EXCEPT ![p] = EmptyDoc]
    /\ stale' = [stale EXCEPT ![p] = FALSE]
    /\ UNCHANGED <<file, chan, concurrent, pure>>

SetMin(S) == CHOOSE m \in S : \A n \in S : m <= n

\* ------------------------------------------------------------ ensure_channel_messages

\* Mutant of NextMissing: the test of the recorded id is left out.
NextAny(d, from) == IF from <= Len(d.categorias) THEN from ELSE 0

\* The first category at or after `from` with no message id, 0 if none.
NextMissing(d, from) ==
    LET S == {k \in from..Len(d.categorias) : d.categorias[k].message_id = NoId}
    IN  IF S = {} THEN 0 ELSE SetMin(S)

\* The loop over the categories from `from` on, up to its next send or to the
\* end of the function.
EnsureLoop(d, from, modified, first) ==
    LET k == NextMissing(d, from)
        l == [loc[0] EXCEPT !.cmd = "ensure", !.cur = k, !.modified = modified]
    IN  IF k = 0
        THEN IF first
             THEN Begin(0, "returned", d, l, NoCall, modified)
             ELSE Step(0, "returned", d, l, NoCall, modified)
        ELSE LET c == SendCall(k, format_category_message(d.categorias[k].key,
                                                          d.categorias[k].links))
             IN  IF first
                 THEN Begin(0, "ens_cat", d, l, c, FALSE)
                 ELSE Step(0, "ens_cat", d, l, c, FALSE)

\* post_init: load, return if no channel, else send the index if it has no id,
\* else go on to the categories.
EnsureStart ==
    /\ pc[0] = "start"
    /\ LET d == file
       IN  IF ~Truthy(d.channel_username)
           THEN Begin(0, "returned", d, [NoLoc EXCEPT !.cmd = "ensure"], NoCall, FALSE)
           ELSE IF d.indice_message_id = NoId
           THEN Begin(0, "ens_idx", d, [NoLoc EXCEPT !.cmd = "ensure"],
                      SendCall(0, format_index(d)), FALSE)
           ELSE EnsureLoop(d, 1, FALSE, TRUE)
    /\ UNCHANGED ops

\* The index send returned: record its id and go on to the categories.
EnsureIndexSent ==
    /\ Resumes(0, "ens_idx") /\ call[0].st = "ok"
    /\ EnsureLoop(SetIndexId(data[0], call[0].rid), 1, TRUE, FALSE)
    /\ UNCHANGED <<ops, loaded>>

\* A category send returned: record its id and go on with the loop.
EnsureCategorySent ==
    /\ Resumes(0, "ens_cat") /\ call[0].st = "ok"
    /\ EnsureLoop(SetCatId(data[0], loc[0].cur, call[0].rid), loc[0].cur + 1,
                  TRUE, FALSE)
    /\ UNCHANGED <<ops, loaded>>

\* A send raised: nothing catches it, post_init fails and the process exits
\* before save_data.
EnsureRaised ==
    /\ pc[0] \in {"ens_idx", "ens_cat"} /\ call[0].st = "fail"
    /\ Step(0, "crashed", data[0], loc[0], NoCall, FALSE)
    /\ UNCHANGED <<ops, loaded>>

\* The operator starts the bot again, after post_init failed or once the
\* running bot was stopped with no update being handled.
Restart ==
    /\ pc[0] \in {"crashed", "done"}
    /\ \A h \in Handlers : pc[h] = "idle"
    /\ ops < MaxOps
    /\ ops' = ops + 1
    /\ Return(0, "start")

\* ------------------------------------------------------------ dispatch

\* The application hands an update to a handler once post_init has returned;
\* unless it dispatches concurrently, it awaits each handler before the next.
CanStart(h) ==
    /\ pc[0] = "done"
    /\ pc[h] = "idle"
    /\ ops < MaxOps
    /\ concurrent \/ (\A g \in Handlers : pc[g] = "idle")
    \* Which free coroutine slot runs the handler makes no difference.
    /\ \A g \in Handlers : g < h => pc[g] # "idle"

\* post_init returned: run_polling starts to poll for updates.
StartPolling ==
    /\ pc[0] = "returned"
    /\ Return(0, "done")
    /\ UNCHANGED ops

\* The handler's last await returned.
Finish(h) ==
    /\ Resumes(h, "reply")
    /\ Return(h, "idle")
    /\ UNCHANGED ops

\* ------------------------------------------------------------ add_command

\* Mutant of FindCategory: a category that matches no key falls on the first.
FindCategoryOrFirst(d, category) ==
    LET matches == {k \in 1..Len(d.categorias) :
                       Lower(d.categorias[k].key) = Lower(category)}
    IN  IF matches = {} THEN (IF d.categorias = <<>> THEN 0 ELSE 1)
        ELSE SetMin(matches)

\* Mutant of FindCategory: a key spelled as typed is preferred to the first
\* key equal up to case.
FindCategoryExact(d, category) ==
    LET matches == {k \in 1..Len(d.categorias) :
                       Lower(d.categorias[k].key) = Lower(category)}
        exact == {k \in 1..Len(d.categorias) : d.categorias[k].key = category}
    IN  IF exact # {} THEN SetMin(exact)
        ELSE IF matches = {} THEN 0 ELSE SetMin(matches)

\* matches = [c for c in keys if c.lower() == category.lower()]; matches[0],
\* as the position of that key, 0 when matches is empty.
FindCategory(d, category) ==
    LET matches == {k \in 1..Len(d.categorias) :
                       Lower(d.categorias[k].key) = Lower(category)}
    IN  IF matches = {} THEN 0 ELSE SetMin(matches)

\* entry = {"texto": title or url, "url": url, "autor": username or full_name}
NewEntry(parsed, user) ==
    [texto |-> PyOr(parsed.title, parsed.url), url |-> parsed.url,
     autor |-> PyOr(user.username, user.full_name)]

\* `if not category or not url`
Rejected(parsed) == ~Truthy(parsed.category) \/ ~Truthy(parsed.url)

\* The reply that ends an accepted /add.
AddedReply(d, k) == ReplyCall("added", d.categorias[k].key)

\* parse_add_args(raw) of each text tried.
ParsedAddTexts == [raw \in AddTexts \cup OverlappingAddTexts |-> parse_add_args(raw)]

\* add_command up to its first await: the usage reply, the unknown-category
\* reply, or load, append and save followed by the category edit (or by the
\* reply when no channel is set).
AddStart(h, raw, user) ==
    /\ CanStart(h)
    /\ ops' = ops + 1
    /\ LET parsed == ParsedAddTexts[raw]
           l == [NoLoc EXCEPT !.cmd = "add", !.raw = raw]
       IN  IF Rejected(parsed)
           THEN Begin(h, "reply", EmptyDoc, l, ReplyCall("usage", <<>>), FALSE)
           ELSE LET k == FindCategory(file, parsed.category)
                IN  IF k = 0
                    THEN Begin(h, "reply", file, l,
                               ReplyCall("unknown", parsed.category), FALSE)
                    ELSE LET d == AppendLink(file, k, NewEntry(parsed, user))
                             lk == [l EXCEPT !.cur = k]
                         IN  IF Truthy(d.channel_username)
                             THEN Begin(h, "add_cat", d, lk,
                                        EditCall(k, d.categorias[k].message_id,
                                            format_category_message(
                                                d.categorias[k].key,
                                                d.categorias[k].links)),
                                        TRUE)
                             ELSE Begin(h, "reply", d, lk, AddedReply(d, k), TRUE)

\* Mutant of AddCategoryEdited: a category edit that raised ends the channel
\* update, as if one try block held both edits.
AddCategoryEditedOneTry(h) ==
    /\ Resumes(h, "add_cat")
    /\ LET d == data[h]
       IN  IF d.indice_message_id # NoId /\ call[h].st = "ok"
           THEN Step(h, "add_idx", d, loc[h],
                     EditCall(0, d.indice_message_id, format_index(d)), FALSE)
           ELSE Step(h, "reply", d, loc[h], AddedReply(d, loc[h].cur), FALSE)
    /\ UNCHANGED <<ops, loaded>>

\* Mutant of AddCategoryEdited: an index without id is sent, as /refresh does.
AddCategoryEditedSendsIndex(h) ==
    /\ Resumes(h, "add_cat")
    /\ LET d == data[h]
       IN  Step(h, "add_idx", d, loc[h],
                IF d.indice_message_id # NoId
                THEN EditCall(0, d.indice_message_id, format_index(d))
                ELSE SendCall(0, format_index(d)),
                FALSE)
    /\ UNCHANGED <<ops, loaded>>

\* The category edit returned or raised (caught and logged): edit the index
\* if it has an id, else reply.
AddCategoryEdited(h) ==
    /\ Resumes(h, "add_cat")
    /\ LET d == data[h]
       IN  IF d.indice_message_id # NoId
           THEN Step(h, "add_idx", d, loc[h],
                     EditCall(0, d.indice_message_id, format_index(d)), FALSE)
           ELSE Step(h, "reply", d, loc[h], AddedReply(d, loc[h].cur), FALSE)
    /\ UNCHANGED <<ops, loaded>>

\* The index edit returned or raised (caught and logged): reply.
AddIndexEdited(h) ==
    /\ Resumes(h, "add_idx")
    /\ Step(h, "reply", data[h], loc[h], AddedReply(data[h], loc[h].cur), FALSE)
    /\ UNCHANGED <<ops, loaded>>

\* ------------------------------------------------------------ refresh_command

\* The remote call of /refresh for target t (0 the index, k a category): an
\* edit if an id is recorded, a send otherwise.
RefreshCall(d, t) ==
    LET id == IF t = 0 THEN d.indice_message_id ELSE d.categorias[t].message_id
        text == IF t = 0 THEN format_index(d)
                ELSE format_category_message(d.categorias[t].key,
                                             d.categorias[t].links)
    IN  IF id # NoId THEN EditCall(t, id, text) ELSE SendCall(t, text)

\* Mutant of RefreshRecord: a call that raised makes /refresh forget the id.
RefreshRecordForgetful(d, t, c) ==
    IF c.st = "ok"
    THEN (IF t = 0 THEN SetIndexId(d, c.rid) ELSE SetCatId(d, t, c.rid))
    ELSE (IF t = 0 THEN SetIndexId(d, NoId) ELSE SetCatId(d, t, NoId))

\* Mutant of RefreshRecord: a new category message's id is not recorded.
RefreshRecordIndexOnly(d, t, c) ==
    IF c.op = "send" /\ c.st = "ok" /\ t = 0 THEN SetIndexId(d, c.rid) ELSE d

\* The id to record after the call for target t returned: only a send that
\* succeeded records one.
RefreshRecord(d, t, c) ==
    IF c.op = "send" /\ c.st = "ok"
    THEN (IF t = 0 THEN SetIndexId(d, c.rid) ELSE SetCatId(d, t, c.rid))
    ELSE d

\* The loop of /refresh at category k, or the index once the categories are done.
RefreshLoop(h, d, k, l, first) ==
    LET t == IF k > Len(d.categorias) THEN 0 ELSE k
        to == IF t = 0 THEN "ref_idx" ELSE "ref_cat"
        lk == [l EXCEPT !.cur = t]
    IN  IF first
        THEN Begin(h, to, d, lk, RefreshCall(d, t), FALSE)
        ELSE Step(h, to, d, lk, RefreshCall(d, t), FALSE)

\* Mutant of RefreshStart: the channel test is left out.
RefreshStartUnguarded(h) ==
    /\ CanStart(h)
    /\ ops' = ops + 1
    /\ RefreshLoop(h, file, 1, [NoLoc EXCEPT !.cmd = "refresh"], TRUE)

\* refresh_command up to its first await: the reply when no channel is set,
\* else the call for the first category (or for the index when there is none).
RefreshStart(h) ==
    /\ CanStart(h)
    /\ ops' = ops + 1
    /\ LET l == [NoLoc EXCEPT !.cmd = "refresh"]
       IN  IF ~Truthy(file.channel_username)
           THEN Begin(h, "reply", file, l, ReplyCall("no_channel", <<>>), FALSE)
           ELSE RefreshLoop(h, file, 1, l, TRUE)

\* A category's call returned or raised (caught and logged).
RefreshCategoryDone(h) ==
    /\ Resumes(h, "ref_cat")
    /\ RefreshLoop(h, RefreshRecord(data[h], loc[h].cur, call[h]), loc[h].cur + 1,
                   loc[h], FALSE)
    /\ UNCHANGED <<ops, loaded>>

\* The index's call returned or raised (caught and logged): save and reply.
RefreshIndexDone(h) ==
    /\ Resumes(h, "ref_idx")
    /\ Step(h, "reply", RefreshRecord(data[h], 0, call[h]), loc[h],
            ReplyCall("refreshed", <<>>), TRUE)
    /\ UNCHANGED <<ops, loaded>>

\* ------------------------------------------------------------ the other handlers

RECURSIVE TotalLinks(_)
TotalLinks(cats) ==
    IF cats = <<>> THEN 0 ELSE Len(Head(cats).links) + TotalLinks(Tail(cats))

\* start
StartCommand(h) ==
    /\ CanStart(h)
    /\ ops' = ops + 1
    /\ Begin(h, "reply", EmptyDoc, [NoLoc EXCEPT !.cmd = "start"],
             ReplyCall("start", <<>>), FALSE)

\* list_command
ListCommand(h) ==
    /\ CanStart(h)
    /\ ops' = ops + 1
    /\ Begin(h, "reply", file, [NoLoc EXCEPT !.cmd = "list"],
             ReplyCall("list", [k \in 1..Len(file.categorias) |->
                                   <<file.categorias[k].key,
                                     Len(file.categorias[k].links)>>]),
             FALSE)

\* info_command
InfoCommand(h) ==
    /\ CanStart(h)
    /\ ops' = ops + 1
    /\ Begin(h, "reply", file, [NoLoc EXCEPT !.cmd = "info"],
             ReplyCall("info", <<PyOr(file.channel_username, <<"No configurado">>),
                                 Len(file.categorias),
                                 TotalLinks(file.categorias)>>),
             FALSE)

\* echo_handler
EchoHandler(h, text) ==
    /\ CanStart(h)
    /\ ops' = ops + 1
    /\ Begin(h, "reply", EmptyDoc, [NoLoc EXCEPT !.cmd = "echo", !.raw = text],
             ReplyCall(IF StartsWith(text, HttpPrefix) \/ StartsWith(text, HttpsPrefix)
                       THEN "echo_hint" ELSE "echo_unknown", text),
             FALSE)

\* ------------------------------------------------------------ the operator

\* The operator does what the /refresh reply asks for, "Edita el archivo y pon
\* el @username del canal": data.json, which every command loads anew, gets
\* its channel while the bot runs and no command is being handled.
OperatorSetsChannel ==
    /\ pc[0] = "done"
    /\ \A h \in Handlers : pc[h] = "idle"
    /\ ~Truthy(file.channel_username)
    /\ file' = [file EXCEPT !.channel_username = Channel]
    /\ UNCHANGED <<chan, pc, data, loc, call, ops, concurrent, trace, loaded, stale,
                   pure>>

\* ------------------------------------------------------------ specification

Init ==
    /\ InitCommon
    /\ concurrent = FALSE
    /\ pc = [p \in Procs |-> IF p = 0 THEN "start" ELSE "idle"]

Next ==
    \/ EnsureStart
    \/ EnsureIndexSent
    \/ EnsureCategorySent
    \/ EnsureRaised
    \/ Restart
    \/ StartPolling
    \/ OperatorSetsChannel
    \/ \E p \in Procs : SendOk(p)
    \/ \E p \in Procs : SendFail(p)
    \/ \E p \in Procs : EditOk(p)
    \/ \E p \in Procs : EditFail(p)
    \/ \E p \in Procs : Replied(p)
    \/ \E h \in Handlers : \E raw \in AddTexts : \E user \in Users : AddStart(h, raw, user)
    \/ \E h \in Handlers : AddCategoryEdited(h)
    \/ \E h \in Handlers : AddIndexEdited(h)
    \/ \E h \in Handlers : RefreshStart(h)
    \/ \E h \in Handlers : RefreshCategoryDone(h)
    \/ \E h \in Handlers : RefreshIndexDone(h)
    \/ \E h \in Handlers : StartCommand(h)
    \/ \E h \in Handlers : ListCommand(h)
    \/ \E h \in Handlers : InfoCommand(h)
    \/ \E h \in Handlers : \E text \in EchoTexts : EchoHandler(h, text)
    \/ \E h \in Handlers : Finish(h)

\* Updates handled one at a time, as the application is built in main().
Spec == Init /\ [][Next]_vars

\* Updates dispatched concurrently once post_init has returned: /add and
\* /refresh handlers interleave at their awaits, on a document of one category.
InitConc ==
    /\ InitCommon
    /\ Len(file.categorias) = 1
    /\ concurrent = TRUE
    /\ pc = [p \in Procs |-> IF p = 0 THEN "start" ELSE "idle"]

WellFormedAddTexts == {raw \in AddTexts : ~Rejected(ParsedAddTexts[raw])}

NextConc ==
    \/ EnsureStart
    \/ EnsureIndexSent
    \/ EnsureCategorySent
    \/ EnsureRaised
    \/ Restart
    \/ StartPolling
    \/ OperatorSetsChannel
    \/ \E p \in Procs : SendOk(p)
    \/ \E p \in Procs : SendFail(p)
    \/ \E p \in Procs : EditOk(p)
    \/ \E p \in Procs : EditFail(p)
    \/ \E p \in Procs : Replied(p)
    \/ \E h \in Handlers : \E raw \in WellFormedAddTexts : \E user \in Users :
          AddStart(h, raw, user)
    \/ \E h \in Handlers : AddCategoryEdited(h)
    \/ \E h \in Handlers : AddIndexEdited(h)
    \/ \E h \in Handlers : RefreshStart(h)
    \/ \E h \in Handlers : RefreshCategoryDone(h)
    \/ \E h \in Handlers : RefreshIndexDone(h)
    \/ \E h \in Handlers : Finish(h)

SpecConc == InitConc /\ [][NextConc]_vars

\* Updates dispatched concurrently, all of them accepted /add commands for
\* the one category of the document, sent by one user.
NextAdds ==
    \/ EnsureStart
    \/ EnsureIndexSent
    \/ EnsureCategorySent
    \/ EnsureRaised
    \/ StartPolling
    \/ \E p \in Procs : SendOk(p)
    \/ \E p \in Procs : SendFail(p)
    \/ \E p \in Procs : EditOk(p)
    \/ \E p \in Procs : EditFail(p)
    \/ \E p \in Procs : Replied(p)
    \/ \E h \in Handlers : \E raw \in OverlappingAddTexts :
          AddStart(h, raw, CHOOSE user \in Users : Truthy(user.username))
    \/ \E h \in Handlers : AddCategoryEdited(h)
    \/ \E h \in Handlers : AddIndexEdited(h)
    \/ \E h \in Handlers : Finish(h)

SpecAdds == InitConc /\ [][NextAdds]_vars

\* Updates handled one at a time on a document of MaxCats categories whose
\* first two keys are equal up to letter case.
KeysUpToCase == <<VI, Vi, Do, Ab>>

InitKeys ==
    /\ InitFrom({d \in DocsOver(KeysUpToCase) : Len(d.categorias) = MaxCats})
    /\ concurrent = FALSE
    /\ pc = [p \in Procs |-> IF p = 0 THEN "start" ELSE "idle"]

SpecKeys == InitKeys /\ [][Next]_vars

\* ------------------------------------------------------------ parse_add_args alone

\* Tokens after the command in the texts tried.
MaxTokens == 3

\* The tokens a text is made of: plain words, URLs of both schemes, and a
\* scheme with nothing after it, which the pattern does not match.
Tokens == { Vi, <<"x">>, UrlA, UrlB, HttpPrefix }

TokenSeqs == UNION { [1..n -> Tokens] : n \in 0..MaxTokens }

\* The command as Telegram delivers it, alone or with the bot's name.
Commands == { SlashAdd, SlashAdd \o <<"@", "b">> }

\* The whitespace the user typed between two tokens.
Separators == { <<" ">>, <<" ", "\t">> }

RECURSIVE JoinWith(_, _)
JoinWith(parts, sep) ==
    IF parts = <<>> THEN <<>>
    ELSE IF Len(parts) = 1 THEN parts[1]
    ELSE parts[1] \o sep \o JoinWith(Tail(parts), sep)

\* No process runs: the document, the channel and every coroutine are at rest.
AtRest ==
    /\ file = EmptyDoc
    /\ chan = <<>>
    /\ pc = [p \in Procs |-> "idle"]
    /\ data = [p \in Procs |-> EmptyDoc]
    /\ loc = [p \in Procs |-> NoLoc]
    /\ call = [p \in Procs |-> NoCall]
    /\ ops = 0
    /\ concurrent = FALSE
    /\ trace = [p \in Procs |-> <<>>]
    /\ loaded = [p \in Procs |-> EmptyDoc]
    /\ stale = [p \in Procs |-> FALSE]

program == <<file, chan, pc, data, loc, call, ops, concurrent, trace, loaded, stale>>

InitParse ==
    /\ AtRest
    /\ \E cmd \in Commands : \E toks \in TokenSeqs : \E sep \in Separators :
          given = [fn |-> "parse_add_args", toks |-> toks,
                   text |-> JoinWith(<<cmd>> \o toks, sep)]
    /\ result = NoRet

\* category, title, url = parse_add_args(raw)
ParseCall ==
    /\ given.fn = "parse_add_args" /\ result = NoRet
    /\ result' = [fn |-> "parse_add_args", value |-> parse_add_args(given.text)]
    /\ UNCHANGED <<program, given>>

NextParse == ParseCall

SpecParse == InitParse /\ [][NextParse]_vars

\* ------------------------------------------------------------ the renderers alone

\* Links of a category in the documents rendered.
MaxLinks == 2

\* Link entries as data.json may hold them: written by /add, or by the
\* operator with an empty texto.
Entries == { [texto |-> <<"t">>, url |-> UrlA, autor |-> <<"a", "n", "a">>],
             [texto |-> <<>>, url |-> UrlB, autor |-> <<"B", "o">>],
             [texto |-> UrlA, url |-> UrlA, autor |-> <<"B", "o">>] }

LinkLists == UNION { [1..m -> Entries] : m \in 0..MaxLinks }

\* The documents rendered as an index: any channel (none, the empty string,
\* a name), the keys in either of two orders, and per category an id or none
\* and 0..MaxLinks links.
IndexDocs ==
    { [channel_username |-> ch, indice_message_id |-> NoId,
       categorias |-> [k \in 1..n |->
           [key |-> keys[k], message_id |-> ids[k],
            links |-> [i \in 1..counts[k] |->
                         [texto |-> <<"t">>, url |-> UrlA,
                          autor |-> <<"a", "n", "a">>]]]]] :
      ch \in {None, <<>>, Channel}, keys \in {CatKeys, KeysUpToCase},
      n \in 0..MaxCats,
      ids \in [1..MaxCats -> {NoId, 7}], counts \in [1..MaxCats -> 0..MaxLinks] }

InitRender ==
    /\ AtRest
    /\ \/ \E d \in IndexDocs : given = [fn |-> "format_index", data |-> d]
       \/ \E name \in {Vi, Do} : \E links \in LinkLists :
             given = [fn |-> "format_category_message", cat_name |-> name,
                      links |-> links]
    /\ result = NoRet

\* format_index(data)
IndexCall ==
    /\ given.fn = "format_index" /\ result = NoRet
    /\ result' = [fn |-> "format_index", value |-> format_index(given.data)]
    /\ UNCHANGED <<program, given>>

\* format_category_message(cat, links)
CategoryCall ==
    /\ given.fn = "format_category_message" /\ result = NoRet
    /\ result' = [fn |-> "format_category_message",
                  value |-> format_category_message(given.cat_name, given.links)]
    /\ UNCHANGED <<program, given>>

NextRender == IndexCall \/ CategoryCall

SpecRender == InitRender /\ [][NextRender]_vars

\* ------------------------------------------------------------ properties

\* The message id the document records for target t: 0 the index, k the k-th
\* category.
IdOf(d, t) == IF t = 0 THEN d.indice_message_id ELSE d.categorias[t].message_id

Targets(d) == 0..Len(d.categorias)

LinksOf(d) == [k \in 1..Len(d.categorias) |-> d.categorias[k].links]

\* The events of a trace that are remote sends or edits.
RemoteCalls(t) == {i \in 1..Len(t) : t[i].op \in {"send", "edit"}}

\* The tokens after the command, as the user typed them, of each text tried.
ArgumentsOf == [raw \in AddTexts \cup OverlappingAddTexts |-> Tail(Split(raw))]

Arguments(raw) == ArgumentsOf[raw]

\* What parse_add_args returns for the text the user typed.
Parsed(raw) == ParsedAddTexts[raw]

\* The step is the start of an /add typed as raw that appends one entry at
\* the end of category k and changes no other link.
AppendsOne(h, raw, k) ==
    LET args == Arguments(raw)
        parsed == Parsed(raw)
        old == file.categorias[k].links
        new == file'.categorias[k].links
    IN  /\ pc[h] = "idle" /\ pc'[h] # "idle"
        /\ loc'[h].cmd = "add" /\ loc'[h].raw = raw
        /\ \E i \in 1..Len(args) : UrlMatch(args[i])
        /\ Lower(file.categorias[k].key) = Lower(parsed.category)
        /\ Len(new) = Len(old) + 1
        /\ SubSeq(new, 1, Len(old)) = old
        /\ new[Len(new)].url = parsed.url
        /\ new[Len(new)].texto = (IF parsed.title = <<>> THEN parsed.url
                                  ELSE parsed.title)
        /\ Len(file'.categorias) = Len(file.categorias)
        /\ \A j \in 1..Len(file.categorias) :
              /\ file'.categorias[j].key = file.categorias[j].key
              /\ j # k => file'.categorias[j].links = file.categorias[j].links

\* C1: with commands handled one at a time, the persisted links change only
\* by an accepted /add appending one entry (url the parsed URL, texto the
\* parsed title or, when it is empty, the URL) at the end of the matched
\* category; every existing entry and every other category stay as they are,
\* and no other operation changes any link.
C1_LinksChangeOnlyByAppend ==
    [][ \/ LinksOf(file') = LinksOf(file)
        \/ \E h \in Handlers : \E raw \in AddTexts :
              \E k \in 1..Len(file.categorias) : AppendsOne(h, raw, k) ]_vars

\* An /add appended to a category that already held an entry, while another
\* category exists.
C1_Witness ==
    /\ Len(file.categorias) = 2
    /\ \E h \in Handlers :
          /\ loc[h].cmd = "add" /\ pc[h] = "reply" /\ call[h].what = "added"
          /\ Len(file.categorias[loc[h].cur].links) = 2

\* An /add in flight whose arguments hold a URL and whose category matches a
\* key of the document it loaded.
AcceptedAdd(h) ==
    /\ pc[h] # "idle" /\ loc[h].cmd = "add"
    /\ \E i \in 1..Len(Arguments(loc[h].raw)) : UrlMatch(Arguments(loc[h].raw)[i])
    /\ \E k \in 1..Len(loaded[h].categorias) :
          Lower(loaded[h].categorias[k].key) = Lower(Arguments(loc[h].raw)[1])

\* The entry of the /add in flight is the last link of its category in d.
HoldsEntry(d, h) ==
    LET links == d.categorias[loc[h].cur].links
    IN  /\ Len(links) = Len(loaded[h].categorias[loc[h].cur].links) + 1
        /\ links[Len(links)].url = Parsed(loc[h].raw).url

\* The i-th event of trace t is a call of kind op for target.
EventIs(t, i, op, target) == i <= Len(t) /\ t[i].op = op /\ t[i].target = target

C2_State(h) ==
    LET t == trace[h]
        k == loc[h].cur
    IN  /\ EventIs(t, 1, "save", -1)
        /\ HoldsEntry(file, h)
        /\ pc[h] = "add_cat" =>
              /\ call[h].op = "edit" /\ call[h].target = k
              /\ RemoteCalls(t) \subseteq {2}
        /\ pc[h] = "add_idx" =>
              /\ call[h].op = "edit" /\ call[h].target = 0
              /\ EventIs(t, 2, "edit", k)
        /\ pc[h] = "reply" =>
              /\ call[h].op = "reply" /\ call[h].what = "added"
              /\ Truthy(file.channel_username) =>
                    /\ EventIs(t, 2, "edit", k)
                    /\ IF file.indice_message_id # NoId
                       THEN EventIs(t, 3, "edit", 0)
                       ELSE RemoteCalls(t) = {2}

C2_Step(h) ==
    /\ (pc[h] = "idle" /\ AcceptedAdd(h)') =>
          /\ HoldsEntry(file, h)'
          /\ chan' = chan
          /\ trace'[h] = <<SaveEvent>>
    /\ (AcceptedAdd(h) /\ pc[h] = "add_cat" /\ pc'[h] # "add_cat") =>
          IF file.indice_message_id # NoId
          THEN pc'[h] = "add_idx" /\ file' = file
          ELSE pc'[h] = "reply" /\ file' = file
    /\ (AcceptedAdd(h) /\ pc[h] = "add_idx" /\ pc'[h] # "add_idx") =>
          pc'[h] = "reply" /\ file' = file

\* C2: an /add with a valid URL and a known category saves the new entry
\* before it makes any remote call; whether the category edit and the index
\* edit succeed or raise, the entry stays in the persisted document, the index
\* edit is attempted after the category edit (when the index has an id) and
\* the success reply follows.
C2_SavedBeforeRemoteAndFailuresIgnored ==
    [][\A h \in Handlers :
          /\ AcceptedAdd(h)' => C2_State(h)'
          /\ C2_Step(h)]_vars

\* An /add both of whose edits raised has replied success.
C2_Witness ==
    \E h \in Handlers :
        /\ AcceptedAdd(h) /\ pc[h] = "reply" /\ call[h].st = "ok"
        /\ Len(trace[h]) = 4
        /\ trace[h][2].op = "edit" /\ ~trace[h][2].ok
        /\ trace[h][3].op = "edit" /\ ~trace[h][3].ok
        /\ HoldsEntry(file, h)

\* The operation of p has made its last remote call of the channel update.
Ended(p) ==
    \/ p = 0 /\ pc[p] \in {"returned", "crashed"}
    \/ p # 0 /\ pc[p] = "reply" /\ loc[p].cmd \in {"refresh", "add"}

\* Every id a successful send of p's operation returned is in data.json.
SentIdsSaved(p) ==
    \A i \in RemoteCalls(trace[p]) :
        (trace[p][i].op = "send" /\ trace[p][i].ok) =>
            IdOf(file, trace[p][i].target) = trace[p][i].id

\* C3 (as claimed): a send or edit that raises is caught where it was called,
\* in ensure_channel_messages as in /refresh and /add, so that when the
\* operation has made its last call the ids of its sends that succeeded are in
\* data.json.
C3_FailuresCaughtAndIdsSaved ==
    \A p \in Procs : Ended(p) => SentIdsSaved(p)

\* No id is recorded in d.
NoIds(d) == \A t \in Targets(d) : IdOf(d, t) = NoId

\* Every target of d has an id.
AllIds(d) == \A t \in Targets(d) : IdOf(d, t) # NoId

\* ensure_channel_messages returned, having started from a document with a
\* channel and no id.
EnsuredFromScratch ==
    /\ pc[0] = "returned"
    /\ Truthy(loaded[0].channel_username)
    /\ NoIds(loaded[0])

\* C4: from a document with a channel, N categories and no id, a run of
\* ensure_channel_messages whose sends all succeed makes exactly N+1 sends,
\* one for the index and one per category, and data.json then records each
\* returned id under the target it was sent for.
C4_EnsureSendsAllAndRecords ==
    EnsuredFromScratch =>
        LET t == trace[0]
            N == Len(loaded[0].categorias)
        IN  /\ Cardinality(RemoteCalls(t)) = N + 1
            /\ \A i \in RemoteCalls(t) : t[i].op = "send" /\ t[i].ok
            /\ Len(file.categorias) = N
            /\ \A tg \in 0..N :
                  /\ Cardinality({i \in RemoteCalls(t) : t[i].target = tg}) = 1
                  /\ \E i \in RemoteCalls(t) :
                        /\ t[i].target = tg
                        /\ t[i].id # NoId
                        /\ IdOf(file, tg) = t[i].id

\* Such a run on a document of two categories.
C4_Witness ==
    /\ EnsuredFromScratch
    /\ Len(loaded[0].categorias) = 2
    /\ Cardinality(RemoteCalls(trace[0])) = 3

\* C5: ensure_channel_messages sends only for the index or a category whose
\* id the document it loaded does not record, and never edits; started from a
\* document where the index and every category have an id, it makes no remote
\* call and leaves data.json as it was.
C5_EnsureIdempotent ==
    loc[0].cmd = "ensure" =>
        /\ \A i \in RemoteCalls(trace[0]) :
              /\ trace[0][i].op = "send"
              /\ IdOf(loaded[0], trace[0][i].target) = NoId
        /\ call[0].op # "edit"
        /\ call[0].op = "send" => IdOf(loaded[0], call[0].target) = NoId
        /\ AllIds(loaded[0]) =>
              /\ pc[0] = "returned"
              /\ trace[0] = <<>>
              /\ call[0] = NoCall
              /\ file = loaded[0]

\* A second run of the process, on the document and the channel an earlier
\* run left: every id is recorded and nothing is sent.
C5_Witness ==
    /\ pc[0] = "returned"
    /\ ops >= 1
    /\ Truthy(loaded[0].channel_username)
    /\ Len(loaded[0].categorias) >= 1
    /\ AllIds(loaded[0])
    /\ chan[IdOf(file, 0)] # <<>>
    /\ trace[0] = <<>>

\* The channel shows the rendering of document d for every target of d.
ChannelMatches(d) ==
    /\ IdOf(d, 0) \in 1..Len(chan)
    /\ chan[IdOf(d, 0)] = format_index(d)
    /\ \A k \in 1..Len(d.categorias) :
          /\ IdOf(d, k) \in 1..Len(chan)
          /\ chan[IdOf(d, k)] = format_category_message(d.categorias[k].key,
                                                        d.categorias[k].links)

\* C6 (as claimed): after a run of ensure_channel_messages whose sends all
\* succeeded, here one that sent every message itself, the index message is
\* format_index of the saved document, jump links included, and each category
\* message is format_category_message of its saved links.
C6_ChannelMatchesAfterEnsure ==
    EnsuredFromScratch => ChannelMatches(file)

\* /refresh has saved and every remote call it made succeeded.
RefreshedAllOk(h) ==
    /\ loc[h].cmd = "refresh" /\ pc[h] = "reply" /\ call[h].what = "refreshed"
    /\ \A i \in RemoteCalls(trace[h]) : trace[h][i].ok

\* C7: after a /refresh whose remote calls all succeeded, run with a channel
\* set, the index and every category have an id in data.json; one remote call
\* was made per category and one for the index, an edit where the loaded
\* document had an id and a send where it had none; and each message shows
\* the rendering of the saved document.
C7_RefreshReconciles ==
    \A h \in Handlers : RefreshedAllOk(h) =>
        LET t == trace[h]
            N == Len(file.categorias)
        IN  /\ AllIds(file)
            /\ Cardinality(RemoteCalls(t)) = N + 1
            /\ \A tg \in 0..N :
                  \E i \in RemoteCalls(t) :
                      /\ t[i].target = tg
                      /\ t[i].op = (IF IdOf(loaded[h], tg) # NoId
                                    THEN "edit" ELSE "send")
                      /\ t[i].id = IdOf(file, tg)
            /\ ChannelMatches(file)

\* Such a /refresh that edited one category, sent the other and sent the index.
C7_Witness ==
    \E h \in Handlers :
        /\ RefreshedAllOk(h)
        /\ Len(file.categorias) = 2
        /\ IdOf(loaded[h], 0) = NoId
        /\ IdOf(loaded[h], 1) # NoId
        /\ IdOf(loaded[h], 2) = NoId

\* The step clears or replaces the id recorded for target t.
IdLost(t) == IdOf(file, t) # NoId /\ IdOf(file', t) # IdOf(file, t)

\* The step is a save by p.
Saves(p) ==
    /\ Len(trace'[p]) = Len(trace[p]) + 1
    /\ trace'[p][Len(trace'[p])].op = "save"
    /\ file' = data'[p]

\* C8 (as claimed): in every run, interleaved handlers and failing remote
\* calls included, an id that is non-null in data.json is never set back to
\* null and never replaced by another id.
C8_IdsNeverClearedOrReplaced ==
    [][\A t \in Targets(file) : ~IdLost(t)]_vars

\* C8 (amended): an id that is non-null in data.json is cleared or replaced
\* only by the save of a /refresh between whose load and save another
\* operation saved data.json, and which loaded a document that did not hold
\* that id; so never while commands are handled one at a time, whatever
\* remote calls fail.
C8_IdsLostOnlyByStaleRefresh ==
    [][\A t \in Targets(file) : IdLost(t) =>
          \E p \in Handlers :
              /\ Saves(p)
              /\ loc[p].cmd = "refresh"
              /\ stale[p]
              /\ IdOf(loaded[p], t) # IdOf(file, t)]_vars

\* A /refresh, alone in flight, one of whose calls raised, has saved the
\* document with the ids it loaded.
C8_Witness ==
    \E h \in Handlers :
        /\ loc[h].cmd = "refresh" /\ pc[h] = "reply" /\ call[h].what = "refreshed"
        /\ ~stale[h]
        /\ \E i \in RemoteCalls(trace[h]) : ~trace[h][i].ok
        /\ \E t \in Targets(file) : IdOf(loaded[h], t) # NoId
        /\ \A t \in Targets(file) :
              IdOf(loaded[h], t) # NoId => IdOf(file, t) = IdOf(loaded[h], t)

\* s is a prefix of t.
IsPrefix(s, t) == Len(s) <= Len(t) /\ SubSeq(t, 1, Len(s)) = s

\* The step removes or displaces a link of data.json.
LinkLost == \E k \in 1..Len(file.categorias) :
                ~IsPrefix(file.categorias[k].links, file'.categorias[k].links)

\* C9: a link leaves data.json only when a /refresh, between whose load and
\* save another operation saved, writes back the links it loaded; the witness
\* is the interleaving claimed, an /add that has replied success while its
\* entry is no longer in data.json.
C9_LinksLostOnlyByStaleRefresh ==
    [][LinkLost =>
          \E p \in Handlers :
              /\ Saves(p)
              /\ loc[p].cmd = "refresh"
              /\ stale[p]
              /\ LinksOf(file') = LinksOf(loaded[p])]_vars

\* An /add saved its entry and replied success, and the entry is absent from
\* data.json: a /refresh that had loaded earlier saved after it.
C9_Witness ==
    \E h \in Handlers :
        /\ AcceptedAdd(h) /\ pc[h] = "reply" /\ call[h].what = "added"
        /\ call[h].st = "ok"
        /\ EventIs(trace[h], 1, "save", -1)
        /\ HoldsEntry(data[h], h)
        /\ file.categorias[loc[h].cur].links = loaded[h].categorias[loc[h].cur].links
        /\ \A g \in Handlers : g # h => loc[g].cmd = "refresh"

\* The /add in flight has changed nothing and called nothing but its reply.
OnlyReplies(h, what, arg) ==
    /\ file = loaded[h]
    /\ \A i \in 1..Len(trace[h]) : trace[h][i].op = "reply"
    /\ pc[h] = "reply"
    /\ call[h].op = "reply" /\ call[h].what = what /\ call[h].arg = arg

\* C10: an /add whose arguments hold no URL-shaped token, or no token, only
\* replies with the usage help; one whose category matches no key of the
\* document, case-insensitively, only replies with a message naming that
\* category; neither changes data.json nor sends or edits a channel message.
C10_RejectedAddOnlyReplies ==
    \A h \in Handlers : (pc[h] # "idle" /\ loc[h].cmd = "add") =>
        LET args == Arguments(loc[h].raw)
            hasUrl == \E i \in 1..Len(args) : UrlMatch(args[i])
        IN  /\ ~hasUrl => OnlyReplies(h, "usage", <<>>)
            /\ (hasUrl /\ \A k \in 1..Len(loaded[h].categorias) :
                    Lower(loaded[h].categorias[k].key) # Lower(args[1]))
                  => OnlyReplies(h, "unknown", args[1])

\* An /add for a category the document does not hold got its reply, on a
\* document that holds other categories.
C10_Witness ==
    \E h \in Handlers :
        /\ loc[h].cmd = "add" /\ pc[h] = "reply" /\ call[h].st = "ok"
        /\ call[h].what = "unknown"
        /\ Len(file.categorias) = 2
        /\ file = loaded[h]

\* The operation of p runs on a document that has no channel.
NoChannel(p) == loc[p].cmd # "none" /\ ~Truthy(loaded[p].channel_username)

\* C11: on a document with no channel, no operation sends or edits a channel
\* message; ensure_channel_messages returns and /refresh replies that the
\* channel is not configured, both without a remote call and with data.json
\* as it was; an accepted /add saves its entry and replies success with no
\* remote call.
C11_NoChannelNoRemoteCall ==
    \A p \in Procs : NoChannel(p) =>
        /\ RemoteCalls(trace[p]) = {}
        /\ call[p].op \notin {"send", "edit"}
        /\ loc[p].cmd \in {"ensure", "refresh"} =>
              /\ \A i \in 1..Len(trace[p]) : trace[p][i].op # "save"
              /\ file = loaded[p]
        /\ loc[p].cmd = "ensure" => pc[p] = "returned" /\ call[p] = NoCall
        /\ loc[p].cmd = "refresh" =>
              /\ pc[p] = "reply"
              /\ call[p].op = "reply" /\ call[p].what = "no_channel"
        /\ (p \in Handlers /\ AcceptedAdd(p)) =>
              /\ EventIs(trace[p], 1, "save", -1)
              /\ HoldsEntry(file, p)
              /\ pc[p] = "reply"
              /\ call[p].op = "reply" /\ call[p].what = "added"

\* An /add on a document without channel got its success reply: it saved its
\* entry and called nothing else.
C11_Witness ==
    \E h \in Handlers :
        /\ NoChannel(h) /\ AcceptedAdd(h)
        /\ pc[h] = "reply" /\ call[h].st = "ok"
        /\ Len(trace[h]) = 2
        /\ HoldsEntry(file, h)

\* The positions of the URL-shaped tokens among toks.
UrlPositions(toks) == {i \in 1..Len(toks) : UrlMatch(toks[i])}

\* C12: for the tokens that follow the /add command, parse_add_args returns,
\* when one of them is URL-shaped, the last such token as the URL, the first
\* token as the category and the tokens strictly between the two joined by
\* single spaces as the title (empty when there are none); when none is
\* URL-shaped, or there is no token, it returns (None, None, None).
C12_ParseAddArgs ==
    result.fn = "parse_add_args" =>
        LET toks == given.toks
            urls == UrlPositions(toks)
        IN  IF urls = {}
            THEN result.value = NoMatch
            ELSE /\ result.value.url = toks[SetMax(urls)]
                 /\ result.value.category = toks[1]
                 /\ result.value.title =
                        JoinSpace(SubSeq(toks, 2, SetMax(urls) - 1))

\* A text of three tokens whose last two are different URLs was parsed: the
\* last is the URL, the one before it is the title.
C12_Witness ==
    /\ result.fn = "parse_add_args"
    /\ Len(given.toks) = 3
    /\ UrlPositions(given.toks) = {2, 3}
    /\ given.toks[2] # given.toks[3]
    /\ result.value.url = given.toks[3]
    /\ result.value.title = given.toks[2]

\* C13 (as claimed): when the last URL-shaped token is the first token after
\* the command, so that no token remains for the category, parse_add_args
\* returns (None, None, None); the category it returns is never the token it
\* returns as the URL.
C13_NoCategoryNoMatch ==
    result.fn = "parse_add_args" =>
        LET urls == UrlPositions(given.toks)
        IN  (urls # {} /\ SetMax(urls) = 1) => result.value = NoMatch

KeysOf(d) == [k \in 1..Len(d.categorias) |-> d.categorias[k].key]

\* The positions of the keys of d equal to name up to letter case.
SameUpToCase(d, name) ==
    {k \in 1..Len(d.categorias) : Lower(d.categorias[k].key) = Lower(name)}

\* The /add in flight works on the first key equal up to case to the category
\* typed: its entry is under that key, its edit is of that key's message and
\* its reply names the key as stored.
C14_State(h) ==
    LET k == SetMin(SameUpToCase(loaded[h], Arguments(loc[h].raw)[1]))
    IN  /\ loc[h].cur = k
        /\ HoldsEntry(file, h)
        /\ \A j \in 1..Len(file.categorias) :
              j # k => file.categorias[j].links = loaded[h].categorias[j].links
        /\ pc[h] = "add_cat" => call[h].target = k
        /\ pc[h] = "reply" =>
              call[h].what = "added" /\ call[h].arg = loaded[h].categorias[k].key

\* C14: /add resolves the category typed to the first key of the document
\* equal to it up to letter case, appends its entry under that key and names
\* that key, as stored, in its reply; no step of any command adds, removes or
\* renames a key.
C14_LookupCaseInsensitiveKeyPreserving ==
    [][ /\ KeysOf(file') = KeysOf(file)
        /\ \A h \in Handlers : AcceptedAdd(h)' => C14_State(h)' ]_vars

\* "/add Vi ..." on a document whose keys are VI and Vi, in that order, has
\* replied: the entry is under VI.
C14_Witness ==
    \E h \in Handlers :
        /\ AcceptedAdd(h) /\ pc[h] = "reply" /\ call[h].st = "ok"
        /\ Arguments(loc[h].raw)[1] = Vi
        /\ file.categorias[1].key = VI /\ file.categorias[2].key = Vi
        /\ call[h].arg = VI
        /\ Len(file.categorias[1].links) = 1 /\ file.categorias[2].links = <<>>

\* C15: for a document of N categories, format_index returns the header and
\* then exactly N lines, the k-th showing the name and the link count of the
\* k-th category of the document; a line carries a jump link if and only if
\* the document has a channel and that category has a message id.
C15_IndexLines ==
    result.fn = "format_index" =>
        LET d == given.data
            N == Len(d.categorias)
            v == result.value
        IN  /\ Len(v) = N + 1
            /\ v[1].kind = "index_header"
            /\ \A k \in 1..N :
                  /\ v[k + 1].kind = "index_line"
                  /\ v[k + 1].cat = d.categorias[k].key
                  /\ v[k + 1].count = Len(d.categorias[k].links)
                  /\ (v[k + 1].jump # <<>>) <=>
                        (/\ d.channel_username \notin {None, <<>>}
                         /\ d.categorias[k].message_id # NoId)

\* The index of a document with a channel and two categories, the first with
\* a message id and the second without, was rendered.
C15_Witness ==
    /\ result.fn = "format_index"
    /\ given.data.channel_username = Channel
    /\ Len(given.data.categorias) = 2
    /\ given.data.categorias[1].message_id # NoId
    /\ given.data.categorias[2].message_id = NoId
    /\ result.value[2].jump # <<>> /\ result.value[3].jump = <<>>

\* C16: on an empty list format_category_message returns the header and the
\* add-link hint, with no numbered line; on M >= 1 links it returns the header
\* and exactly M numbered lines, the i-th numbered i, linking to the url of
\* the i-th entry and titled with its texto, or with its url when texto is
\* empty; the count in the header is M.
C16_CategoryLines ==
    result.fn = "format_category_message" =>
        LET links == given.links
            M == Len(links)
            v == result.value
            numbered == {i \in 1..Len(v) : v[i].kind = "link_line"}
        IN  /\ v[1].kind = "category_header" /\ v[1].count = M
            /\ M = 0 => (numbered = {} /\ Len(v) = 2 /\ v[2].kind = "add_hint")
            /\ M >= 1 =>
                  /\ Len(v) = M + 1
                  /\ numbered = 2..(M + 1)
                  /\ \A i \in 1..M :
                        /\ v[i + 1].n = i
                        /\ v[i + 1].url = links[i].url
                        /\ v[i + 1].title = (IF links[i].texto = <<>>
                                             THEN links[i].url
                                             ELSE links[i].texto)

\* A list of two links, the second with an empty texto, was rendered.
C16_Witness ==
    /\ result.fn = "format_category_message"
    /\ Len(given.links) = 2
    /\ given.links[1].texto # <<>> /\ given.links[2].texto = <<>>
    /\ result.value[3].title = given.links[2].url

\* The remote calls of the /add in flight: at most two, each an edit, of the
\* message of its category or of the index, with the id the document records
\* for it, at most one per target; an edit with no id changes no message.
C17_State(h) ==
    LET t == trace[h]
        R == RemoteCalls(t)
        mine == {loc[h].cur, 0}
    IN  /\ Cardinality(R) <= 2
        /\ \A i \in R :
              /\ t[i].op = "edit"
              /\ t[i].target \in mine
              /\ t[i].id = IdOf(loaded[h], t[i].target)
              /\ t[i].ok => t[i].id # NoId
              /\ \A j \in R : t[j].target = t[i].target => j = i
        /\ call[h].op # "send"
        /\ call[h].op = "edit" =>
              call[h].target \in mine /\ call[h].id = IdOf(loaded[h], call[h].target)

\* C17: an accepted /add makes at most two remote calls, an edit of the
\* message of the category it appended to and an edit of the index message;
\* it sends no message, the channel gets no new message and no other message
\* changes, and no message id of data.json changes: a category without a
\* recorded id gets no channel message from /add.
C17_AddOnlyEdits ==
    [][\A h \in Handlers : AcceptedAdd(h)' =>
          /\ C17_State(h)'
          /\ Len(chan') = Len(chan)
          /\ \A i \in 1..Len(chan) :
                chan'[i] # chan[i] =>
                    i \in {IdOf(file, loc'[h].cur), IdOf(file, 0)}
          /\ Targets(file') = Targets(file)
          /\ \A t \in Targets(file) : IdOf(file', t) = IdOf(file, t)]_vars

\* An /add to a category without message id, on a document with a channel
\* and an index id, has replied: its category edit raised, its index edit
\* went through.
C17_Witness ==
    \E h \in Handlers :
        /\ AcceptedAdd(h) /\ pc[h] = "reply" /\ call[h].st = "ok"
        /\ IdOf(loaded[h], loc[h].cur) = NoId
        /\ IdOf(file, loc[h].cur) = NoId
        /\ Len(trace[h]) = 4
        /\ EventIs(trace[h], 2, "edit", loc[h].cur) /\ ~trace[h][2].ok
        /\ EventIs(trace[h], 3, "edit", 0) /\ trace[h][3].ok

\* The entry of the /add in flight is in data.json where its save put it:
\* right after the links of its category that it loaded.
EntryInPlace(h) ==
    LET k == loc[h].cur
        n == Len(loaded[h].categorias[k].links)
        links == file.categorias[k].links
    IN  /\ Len(links) > n
        /\ links[n + 1].url = Parsed(loc[h].raw).url
        /\ links[n + 1].texto = PyOr(Parsed(loc[h].raw).title, Parsed(loc[h].raw).url)
        /\ SubSeq(links, 1, n) = loaded[h].categorias[k].links

\* C18: with /add handlers interleaved at their remote calls, every step that
\* changes the links is the load-append-save of one /add, which puts one entry
\* at the end of its category and keeps every entry saved before; the entry
\* of every /add in flight stays where its save put it, so data.json holds
\* each accepted entry once, those of a category in the order of the saves.
C18_AddsKeepEveryEntry ==
    [][ /\ \/ LinksOf(file') = LinksOf(file)
           \/ \E h \in Handlers : \E raw \in OverlappingAddTexts :
                 \E k \in 1..Len(file.categorias) : AppendsOne(h, raw, k)
        /\ \A h \in Handlers : AcceptedAdd(h)' => EntryInPlace(h)' ]_vars

\* Two /add handlers overlap: the second loaded and saved while the first
\* awaited its category edit, and data.json holds both entries, the first
\* saved first.
C18_Witness ==
    /\ AcceptedAdd(1) /\ AcceptedAdd(2)
    /\ pc[1] = "add_cat" /\ call[1].st = "pending"
    /\ Parsed(loc[1].raw).url # Parsed(loc[2].raw).url
    /\ loaded[2].categorias[1].links = data[1].categorias[1].links
    /\ Len(file.categorias[1].links) = 2
    /\ file.categorias[1].links[1].url = Parsed(loc[1].raw).url
    /\ file.categorias[1].links[2].url = Parsed(loc[2].raw).url

====
